---- MODULE Spec2Model ----
(***************************************************************************)
(* Model of backend/src/ee/services/group/user-group-membership-dal.ts:    *)
(* the four queries of userGroupMembershipDALFactory over the relations    *)
(* users, groups, user_group_membership, project_memberships and           *)
(* group_project_memberships.  One caller runs one operation at a time,    *)
(* statement by statement (each `await` is a step); other sessions of the  *)
(* same database write to the relations between the steps.                 *)
(***************************************************************************)
EXTENDS Naturals, FiniteSets, Sequences, Bags, TLC

\* ------------------------------------------------------------------ bounds
\* Number of writes the other sessions make to the relations in one run.
MaxWrites == 4

\* Identifiers present in the database.
UserIds == {"u1", "u2"}
GroupIds == {"g1", "g2"}
ProjectIds == {"p1", "p2"}
\* The empty string passed as a group id: equal to no group's id.
NoGroup == ""
\* Storage faults a statement can raise.
Faults == {"timeout", "connection"}

VARIABLES
    users,        \* TableName.Users rows
    groups,       \* TableName.Groups rows
    ugm,          \* TableName.UserGroupMembership rows
    pm,           \* TableName.ProjectMembership rows
    gpm,          \* TableName.GroupProjectMembership rows
    writes,       \* writes made so far by other sessions
    pc,           \* position of the caller inside the running operation
    args,         \* arguments of the running operation
    locals,       \* values the operation has read so far
    outcome,      \* what the operation gave the caller: a value or an error
    issued,       \* statements the operation has issued, in order
    interleaved,  \* a write of another session fell between two statements
    atCall,       \* user_group_membership as the first statement saw it
    removed,      \* rows the delete statement removed
    raised        \* the fault the storage engine raised in the running operation

vars == <<users, groups, ugm, pm, gpm, writes, pc, args, locals, outcome,
          issued, interleaved, atCall, removed, raised>>

tables == <<users, groups, ugm, pm, gpm>>

\* ------------------------------------------------------------------ rows
UsernameOf(u) == IF u = "u1" THEN "alice" ELSE "bob"
Usernames == {UsernameOf(u) : u \in UserIds}

UserRow(u, ghost) == [id |-> u, username |-> UsernameOf(u), isGhost |-> ghost]

GroupRow(g) ==
    [id |-> g, orgId |-> "org1", name |-> IF g = "g1" THEN "Engineering" ELSE "Finance",
     slug |-> IF g = "g1" THEN "engineering" ELSE "finance",
     role |-> IF g = "g1" THEN "member" ELSE "admin", roleId |-> "none"]

\* TableName.UserEncryptionKey: a user without a key has no row (left join gives NULL).
UserEncryptionKey == {[userId |-> "u1", publicKey |-> "pk-u1"]}
\* A NULL column, and the all-NULL row a left join pairs with an unmatched row.
NULL == "NULL"
NullRow == [null |-> TRUE]

Membership(u, g, pending) == [userId |-> u, groupId |-> g, isPending |-> pending]

\* ------------------------------------------------------------------ knex
\* .pluck(column): the column's value of every row of the result, as an array.
\* The order of the rows is the engine's; the array is kept as a bag.
\* column: the rows of the result, each with its value of the column.
Pluck(column) ==
    [v \in {column[r] : r \in DOMAIN column}
        |-> Cardinality({r \in DOMAIN column : column[r] = v})]

\* new Set(array): every value of the array once.
NewSet(array) == [v \in BagToSet(array) |-> 1]

\* Variant: the error is built without the cause, new DatabaseError({ name }).
DatabaseError_NoCause(error, name) ==
    [kind |-> "error", name |-> name, error |-> "", value |-> EmptyBag]

\* DatabaseError({ error, name })
DatabaseError(error, name) == [kind |-> "error", name |-> name, error |-> error, value |-> EmptyBag]

Returned(value) == [kind |-> "ok", name |-> "", error |-> "", value |-> value]
NoOutcome == [kind |-> "none", name |-> "", error |-> "", value |-> EmptyBag]

NoArgs == [op |-> "none"]
NoLocals == [a |-> EmptyBag]

\* ------------------------------------------------------------------ init
Init ==
    /\ users \in {{UserRow("u1", FALSE), UserRow("u2", gh)} : gh \in BOOLEAN}
    /\ groups = {GroupRow(g) : g \in GroupIds}
    /\ ugm = {}
    /\ pm = {}
    /\ gpm = {}
    /\ writes = 0
    /\ pc = "idle"
    /\ args = NoArgs
    /\ locals = NoLocals
    /\ outcome = NoOutcome
    /\ issued = <<>>
    /\ interleaved = FALSE
    /\ atCall = {}
    /\ removed = {}
    /\ raised = ""

\* ------------------------------------------------------------------ writes of other sessions
\* A write is possible while the caller is idle or between two of its statements,
\* not at the instant the operation hands its result back.
CanWrite == pc # "done" /\ writes < MaxWrites

Written ==
    /\ writes' = writes + 1
    /\ interleaved' = (pc # "idle")
    /\ UNCHANGED <<users, groups, pc, args, locals, outcome, issued, atCall, removed, raised>>

\* A user is invited to a group: at most one row per (userId, groupId).
InviteToGroup ==
    /\ CanWrite
    /\ \E u \in UserIds, g \in GroupIds :
          /\ \A m \in ugm : ~(m.userId = u /\ m.groupId = g)
          /\ ugm' = ugm \cup {Membership(u, g, TRUE)}
    /\ UNCHANGED <<pm, gpm>>
    /\ Written

\* The user accepts the invitation.
AcceptInvite ==
    /\ CanWrite
    /\ \E m \in ugm :
          /\ m.isPending
          /\ ugm' = (ugm \ {m}) \cup {Membership(m.userId, m.groupId, FALSE)}
    /\ UNCHANGED <<pm, gpm>>
    /\ Written

\* A user is added to a project directly.
AddProjectMembership ==
    /\ CanWrite
    /\ \E u \in UserIds, p \in ProjectIds :
          /\ [userId |-> u, projectId |-> p] \notin pm
          /\ pm' = pm \cup {[userId |-> u, projectId |-> p]}
    /\ UNCHANGED <<ugm, gpm>>
    /\ Written

\* A group is granted a project.
AddGroupProjectMembership ==
    /\ CanWrite
    /\ \E g \in GroupIds, p \in ProjectIds :
          /\ [groupId |-> g, projectId |-> p] \notin gpm
          /\ gpm' = gpm \cup {[groupId |-> g, projectId |-> p]}
    /\ UNCHANGED <<ugm, pm>>
    /\ Written

\* ------------------------------------------------------------------ call protocol
\* The caller enters an operation; its first statement is issued at once.
Start(statement) ==
    /\ pc = "idle"
    /\ issued' = <<statement>>
    /\ UNCHANGED <<writes, interleaved, removed>>

\* The operation goes on to its next statement.
Continue(statement) ==
    /\ issued' = Append(issued, statement)
    /\ UNCHANGED <<writes, interleaved, atCall>>

\* return value: the frame of the operation is gone, the caller holds the value.
Return(value) ==
    /\ pc' = "done"
    /\ outcome' = Returned(value)
    /\ locals' = NoLocals
    /\ UNCHANGED raised

\* catch (error) { throw new DatabaseError({ error, name }) }: the statement changed
\* nothing, the frame (arguments and locals) is gone, the caller holds the error.
Throw(op, error, name) ==
    /\ pc' = "done"
    /\ raised' = error
    /\ outcome' = DatabaseError(error, name)
    /\ args' = [op |-> op]
    /\ locals' = NoLocals
    /\ UNCHANGED tables

\* ------------------------------------------------------------------ filterProjectsByUserMembership
FilterLabel == "Filter projects by user membership"

\* First statement: the user's direct memberships among projectIds.
UserProjectMemberships(userId, projectIds) ==
    Pluck([m \in {x \in pm : x.userId = userId /\ x.projectId \in projectIds}
              |-> m.projectId])

\* Variant: the whereNot on groupId is left out.
UserGroupMemberships_NoExclusion(userId, groupId, projectIds) ==
    Pluck([j \in {x \in ugm \X gpm :
              /\ x[1].userId = userId
              /\ x[1].groupId = x[2].groupId
              /\ x[2].projectId \in projectIds}
              |-> j[2].projectId])

\* Variant: the query also asks for isPending = false, as the main query of
\* findGroupMembersNotInProject does.
UserGroupMemberships_AcceptedOnly(userId, groupId, projectIds) ==
    Pluck([j \in {x \in ugm \X gpm :
              /\ x[1].userId = userId
              /\ x[1].groupId # groupId
              /\ x[1].isPending = FALSE
              /\ x[1].groupId = x[2].groupId
              /\ x[2].projectId \in projectIds}
              |-> j[2].projectId])

\* Second statement: user_group_membership joined to group_project_memberships on
\* groupId, for the user, not the group groupId, the project among projectIds.
UserGroupMemberships(userId, groupId, projectIds) ==
    Pluck([j \in {x \in ugm \X gpm :
              /\ x[1].userId = userId
              /\ x[1].groupId # groupId
              /\ x[1].groupId = x[2].groupId
              /\ x[2].projectId \in projectIds}
              |-> j[2].projectId])

\* Variant: the concatenated array is returned as it is, without new Set.
FilterResult_NoDedup(userProjectMemberships, userGroupMemberships) ==
    userProjectMemberships (+) userGroupMemberships

\* return new Set(userProjectMemberships.concat(userGroupMemberships))
FilterResult(userProjectMemberships, userGroupMemberships) ==
    NewSet(userProjectMemberships (+) userGroupMemberships)

FilterArgs ==
    {[op |-> "filterProjectsByUserMembership", userId |-> u, groupId |-> g, projectIds |-> ps] :
        u \in UserIds, g \in GroupIds \cup {NoGroup}, ps \in SUBSET ProjectIds}

FilterProjects_Direct ==
    \E a \in FilterArgs :
        /\ Start("projectMembership")
        /\ args' = a
        /\ locals' = [a |-> UserProjectMemberships(a.userId, a.projectIds)]
        /\ pc' = "filter2"
        /\ UNCHANGED <<tables, outcome, atCall, raised>>

FilterProjects_DirectFails ==
    \E a \in FilterArgs, f \in Faults :
        /\ Start("projectMembership")
        /\ Throw(a.op, f, FilterLabel)
        /\ UNCHANGED atCall

FilterProjects_Groups ==
    /\ pc = "filter2"
    /\ Continue("userGroupMembership")
    /\ Return(FilterResult(locals.a,
                  UserGroupMemberships(args.userId, args.groupId, args.projectIds)))
    /\ UNCHANGED <<tables, args, removed>>

FilterProjects_GroupsFails ==
    /\ pc = "filter2"
    /\ Continue("userGroupMembership")
    /\ \E f \in Faults : Throw(args.op, f, FilterLabel)
    /\ UNCHANGED removed

\* ------------------------------------------------------------------ findUserGroupMembershipsInProject
FindInProjectLabel == "Find user group members in project"

\* Variant: the query also asks for isPending = false.
UsernameDocs_AcceptedOnly(usernames, projectId) ==
    Pluck([j \in {x \in ugm \X gpm \X users :
              /\ x[1].groupId = x[2].groupId
              /\ x[1].userId = x[3].id
              /\ x[1].isPending = FALSE
              /\ x[2].projectId = projectId
              /\ x[3].username \in usernames}
              |-> j[3].id])

\* user_group_membership joined to group_project_memberships on groupId and to users
\* on userId, for the project and the usernames; the users' ids.
UsernameDocs(usernames, projectId) ==
    Pluck([j \in {x \in ugm \X gpm \X users :
              /\ x[1].groupId = x[2].groupId
              /\ x[1].userId = x[3].id
              /\ x[2].projectId = projectId
              /\ x[3].username \in usernames}
              |-> j[3].id])

FindInProjectArgs ==
    {[op |-> "findUserGroupMembershipsInProject", usernames |-> ns, projectId |-> p] :
        ns \in SUBSET Usernames, p \in ProjectIds}

FindInProject ==
    \E a \in FindInProjectArgs :
        /\ Start("userGroupMembership")
        /\ args' = a
        /\ Return(UsernameDocs(a.usernames, a.projectId))
        /\ UNCHANGED <<tables, atCall>>

FindInProjectFails ==
    \E a \in FindInProjectArgs, f \in Faults :
        /\ Start("userGroupMembership")
        /\ Throw(a.op, f, FindInProjectLabel)
        /\ UNCHANGED atCall

\* ------------------------------------------------------------------ findGroupMembersNotInProject
FindNotInProjectLabel == "Find group members not in project"

\* First statement: the groups granted the project, other than groupId.
OtherGroupsInProject(groupId, projectId) ==
    Pluck([g \in {x \in gpm : x.projectId = projectId /\ x.groupId # groupId}
              |-> g.groupId])

\* rows LEFT JOIN right ON on (the pairs the condition matches): every matching pair,
\* and a row without a match paired with NULLs.
LeftJoin(rows, right, on) ==
    {j \in rows \X right : j \in on}
        \cup {<<r, NullRow>> : r \in {x \in rows : \A y \in right : <<x, y>> \notin on}}

\* The sub-select of whereNotIn: the users with a row in one of the groups.
UsersOfGroups(groupIds) == {m.userId : m \in {x \in ugm : x.groupId \in groupIds}}

\* Variant: the where({ isGhost: false }) is left out.
MemberFilter_WithGhosts(m, u, groupId) ==
    /\ m.groupId = groupId
    /\ m.isPending = FALSE

\* The where clauses of the main query on a joined row <<membership, user>>.
MemberFilter(m, u, groupId) ==
    /\ m.groupId = groupId
    /\ m.isPending = FALSE
    /\ u.isGhost = FALSE

\* Main query: the rows of the group joined to users, left-joined to the direct
\* membership in the project (kept where there is none) and to the encryption key.
MembersQuery(groupId, projectId, otherGroups) ==
    LET joined == {j \in ugm \X users : j[1].userId = j[2].id}
        kept == {j \in joined : MemberFilter(j[1], j[2], groupId)}
        withPm == LeftJoin(kept, pm,
                     {x \in kept \X pm :
                         x[1][2].id = x[2].userId /\ x[2].projectId = projectId})
        noPm == {j \in withPm : j[2] = NullRow}
        withKey == LeftJoin({j[1] : j \in noPm}, UserEncryptionKey,
                     {x \in {j[1] : j \in noPm} \X UserEncryptionKey :
                         x[2].userId = x[1][2].id})
    IN  {j \in withKey : j[1][1].userId \notin UsersOfGroups(otherGroups)}

\* members.map(...): the membership's fields and the nested user object (email,
\* firstName and lastName are carried like username and left out).
MemberRecord(j) ==
    [groupId |-> j[1][1].groupId,
     user |-> [id |-> j[1][2].id, username |-> j[1][2].username,
               publicKey |-> IF j[2] = NullRow THEN NULL ELSE j[2].publicKey]]

MembersNotInProject(groupId, projectId, otherGroups) ==
    Pluck([j \in MembersQuery(groupId, projectId, otherGroups) |-> MemberRecord(j)])

FindNotInProjectArgs ==
    {[op |-> "findGroupMembersNotInProject", groupId |-> g, projectId |-> p] :
        g \in GroupIds, p \in ProjectIds}

FindNotInProject_Groups ==
    \E a \in FindNotInProjectArgs :
        /\ Start("groupProjectMembership")
        /\ args' = a
        /\ locals' = [a |-> OtherGroupsInProject(a.groupId, a.projectId)]
        /\ pc' = "findNot2"
        /\ UNCHANGED <<tables, outcome, atCall, raised>>

FindNotInProject_GroupsFails ==
    \E a \in FindNotInProjectArgs, f \in Faults :
        /\ Start("groupProjectMembership")
        /\ Throw(a.op, f, FindNotInProjectLabel)
        /\ UNCHANGED atCall

FindNotInProject_Members ==
    /\ pc = "findNot2"
    /\ Continue("userGroupMembership")
    /\ Return(MembersNotInProject(args.groupId, args.projectId, BagToSet(locals.a)))
    /\ UNCHANGED <<tables, args, removed>>

FindNotInProject_MembersFails ==
    /\ pc = "findNot2"
    /\ Continue("userGroupMembership")
    /\ \E f \in Faults : Throw(args.op, f, FindNotInProjectLabel)
    /\ UNCHANGED removed

\* ------------------------------------------------------------------ deletePendingUserGroupMembershipsByUserIds
DeleteLabel == "Delete pending user group memberships by user ids"

\* Variant: the where on isPending is left out of the snapshot read.
PendingMembers_AnyStatus(userIds) ==
    {j \in ugm \X groups \X users :
        /\ j[1].userId \in userIds
        /\ j[1].groupId = j[2].id
        /\ j[1].userId = j[3].id}

\* First statement: the pending rows of the users, joined to groups and to users.
PendingMembers(userIds) ==
    {j \in ugm \X groups \X users :
        /\ j[1].userId \in userIds
        /\ j[1].isPending = TRUE
        /\ j[1].groupId = j[2].id
        /\ j[1].userId = j[3].id}

\* Variant: the delete removes the pending rows of the users alone.
DeletedRows_PendingOnly(userIds) == {m \in ugm : m.userId \in userIds /\ m.isPending}

\* Variant: the delete's filter is lost and every row goes.
DeletedRows_Unfiltered(userIds) == ugm

\* userGroupMembershipOrm.delete({ $in: { userId: userIds } }): the rows it removes.
DeletedRows(userIds) == {m \in ugm : m.userId \in userIds}

\* members.map(...): the {user, group} pair of a row read by the first statement
\* (createdAt and updatedAt, both the time of the call, are left out).
RemovedPair(j) ==
    [user |-> [id |-> j[1].userId, username |-> j[3].username],
     group |-> [id |-> j[1].groupId, orgId |-> j[2].orgId, name |-> j[2].name,
                slug |-> j[2].slug, role |-> j[2].role, roleId |-> j[2].roleId]]

DeleteResult(members) == Pluck([j \in members |-> RemovedPair(j)])

DeleteArgs ==
    {[op |-> "deletePendingUserGroupMembershipsByUserIds", userIds |-> ids] :
        ids \in SUBSET UserIds}

DeletePending_Read ==
    \E a \in DeleteArgs :
        /\ Start("select")
        /\ args' = a
        /\ locals' = [a |-> PendingMembers(a.userIds)]
        /\ atCall' = ugm
        /\ pc' = "delete2"
        /\ UNCHANGED <<tables, outcome, raised>>

DeletePending_ReadFails ==
    \E a \in DeleteArgs, f \in Faults :
        /\ Start("select")
        /\ atCall' = ugm
        /\ Throw(a.op, f, DeleteLabel)

DeletePending_Delete ==
    /\ pc = "delete2"
    /\ Continue("delete")
    /\ ugm' = ugm \ DeletedRows(args.userIds)
    /\ removed' = DeletedRows(args.userIds)
    /\ Return(DeleteResult(locals.a))
    /\ UNCHANGED <<users, groups, pm, gpm, args>>

DeletePending_DeleteFails ==
    /\ pc = "delete2"
    /\ Continue("delete")
    /\ \E f \in Faults : Throw(args.op, f, DeleteLabel)
    /\ UNCHANGED removed

\* ------------------------------------------------------------------ the caller takes the outcome
Resume ==
    /\ pc = "done"
    /\ pc' = "idle"
    /\ args' = NoArgs
    /\ locals' = NoLocals
    /\ outcome' = NoOutcome
    /\ issued' = <<>>
    /\ interleaved' = FALSE
    /\ atCall' = {}
    /\ removed' = {}
    /\ raised' = ""
    /\ UNCHANGED <<tables, writes>>

Next ==
    \/ InviteToGroup
    \/ AcceptInvite
    \/ AddProjectMembership
    \/ AddGroupProjectMembership
    \/ FilterProjects_Direct
    \/ FilterProjects_DirectFails
    \/ FilterProjects_Groups
    \/ FilterProjects_GroupsFails
    \/ FindInProject
    \/ FindInProjectFails
    \/ FindNotInProject_Groups
    \/ FindNotInProject_GroupsFails
    \/ FindNotInProject_Members
    \/ FindNotInProject_MembersFails
    \/ DeletePending_Read
    \/ DeletePending_ReadFails
    \/ DeletePending_Delete
    \/ DeletePending_DeleteFails
    \/ Resume

Spec == Init /\ [][Next]_vars

\* ------------------------------------------------------------------ properties
\* The operation op has handed back a value.
Gave(op) == pc = "done" /\ args.op = op /\ outcome.kind = "ok"
\* ... and no other session wrote between its statements.
GaveQuietly(op) == Gave(op) /\ ~interleaved

\* The values an array holds, and the array holding each value of a set once.
Values(array) == BagToSet(array)
Once(set) == [v \in set |-> 1]

HasDirect(u, p) == [userId |-> u, projectId |-> p] \in pm
Granted(g, p) == [groupId |-> g, projectId |-> p] \in gpm

\* Set A: the candidate projects the user is a direct member of.
SetA(u, ps) == {p \in ps : HasDirect(u, p)}
\* Set B: the candidate projects granted to a group, other than g, the user has a row in.
SetB(u, g, ps) ==
    {p \in ps : \E m \in ugm : m.userId = u /\ m.groupId # g /\ Granted(m.groupId, p)}

\* C4: filterProjectsByUserMembership returns exactly A \cup B, each project once, a
\* subset of the candidates, empty for an empty candidate list.
C4_FilterReturnsUnionOnce ==
    GaveQuietly("filterProjectsByUserMembership") =>
        /\ outcome.value = Once(SetA(args.userId, args.projectIds)
                                \cup SetB(args.userId, args.groupId, args.projectIds))
        /\ Values(outcome.value) \subseteq args.projectIds
        /\ (args.projectIds = {} => outcome.value = EmptyBag)

\* A project the user reaches both directly and through an eligible group was returned,
\* and another candidate was not.
C4_Witness ==
    /\ GaveQuietly("filterProjectsByUserMembership")
    /\ \E p \in Values(outcome.value) :
          /\ p \in SetA(args.userId, args.projectIds)
          /\ p \in SetB(args.userId, args.groupId, args.projectIds)
    /\ args.projectIds # Values(outcome.value)

\* C5: a project the user reaches only through the excluded group is absent from the
\* result; a candidate project the user reaches directly or through another group is in it.
C5_ExcludedGroupOnlyPathIsAbsent ==
    GaveQuietly("filterProjectsByUserMembership") =>
        \A p \in ProjectIds :
            /\ ( /\ ~HasDirect(args.userId, p)
                 /\ \A m \in ugm : (m.userId = args.userId /\ Granted(m.groupId, p))
                                      => m.groupId = args.groupId )
                   => p \notin Values(outcome.value)
            /\ ( /\ p \in args.projectIds
                 /\ \/ HasDirect(args.userId, p)
                    \/ \E m \in ugm : /\ m.userId = args.userId
                                      /\ m.groupId # args.groupId
                                      /\ Granted(m.groupId, p) )
                   => p \in Values(outcome.value)

\* The user reaches a candidate project through the excluded group alone, and another
\* candidate project some other way.
C5_Witness ==
    /\ GaveQuietly("filterProjectsByUserMembership")
    /\ \E p \in args.projectIds :
          /\ ~HasDirect(args.userId, p)
          /\ \E m \in ugm : m.userId = args.userId /\ m.groupId = args.groupId
                              /\ Granted(m.groupId, p)
          /\ p \notin Values(outcome.value)
    /\ Values(outcome.value) # {}

\* The scenario: U1 direct in P1 and pending in G1, which is granted P1 and P2; the call
\* (U1, "", [P1, P2]).
C7_Scenario ==
    /\ ugm = {Membership("u1", "g1", TRUE)}
    /\ pm = {[userId |-> "u1", projectId |-> "p1"]}
    /\ gpm = {[groupId |-> "g1", projectId |-> "p1"], [groupId |-> "g1", projectId |-> "p2"]}
    /\ args = [op |-> "filterProjectsByUserMembership", userId |-> "u1", groupId |-> NoGroup,
               projectIds |-> {"p1", "p2"}]

\* C7: filterProjectsByUserMembership applies no pending filter: a candidate project
\* reached through a pending row of a group other than the excluded one is returned; for
\* U1 direct in P1 and pending in G1 granted P1 and P2, (U1, "", [P1, P2]) gives {P1, P2}.
C7_PendingRowsCount ==
    GaveQuietly("filterProjectsByUserMembership") =>
        /\ \A p \in args.projectIds :
              (\E m \in ugm : /\ m.userId = args.userId
                              /\ m.isPending
                              /\ m.groupId # args.groupId
                              /\ Granted(m.groupId, p))
                 => p \in Values(outcome.value)
        /\ C7_Scenario => outcome.value = Once({"p1", "p2"})

C7_Witness == GaveQuietly("filterProjectsByUserMembership") /\ C7_Scenario

\* C8: findUserGroupMembershipsInProject returns a user's id exactly when the username is
\* among usernames and the user has a row, pending or accepted, in a group granted the
\* project; ghosts are not filtered, a direct project membership alone does not count.
C8_FindInProjectIsGroupReach ==
    Gave("findUserGroupMembershipsInProject") =>
        \A u \in users :
            u.id \in Values(outcome.value)
                <=> /\ u.username \in args.usernames
                    /\ \E m \in ugm : m.userId = u.id /\ Granted(m.groupId, args.projectId)

\* A ghost with a pending row was returned, a named user with a direct membership alone
\* was not.
C8_Witness ==
    /\ Gave("findUserGroupMembershipsInProject")
    /\ \E u \in users :
          /\ u.isGhost
          /\ u.id \in Values(outcome.value)
          /\ \A m \in ugm : m.userId = u.id => m.isPending
    /\ \E u \in users :
          /\ u.username \in args.usernames
          /\ HasDirect(u.id, args.projectId)
          /\ u.id \notin Values(outcome.value)

IsGhost(u) == \E r \in users : r.id = u /\ r.isGhost

\* The user has a row in a group, other than g, that is granted the project.
InOtherGroupOfProject(u, g, p) ==
    \E m \in ugm : m.userId = u /\ m.groupId # g /\ Granted(m.groupId, p)

\* C6: every record findGroupMembersNotInProject returns is for a user who is no ghost,
\* whose row in the group is accepted, who has no direct membership in the project and no
\* row in another group granted the project.
C6_ReturnedMembersAreNew ==
    GaveQuietly("findGroupMembersNotInProject") =>
        \A r \in Values(outcome.value) :
            /\ ~IsGhost(r.user.id)
            /\ Membership(r.user.id, args.groupId, FALSE) \in ugm
            /\ r.groupId = args.groupId
            /\ ~HasDirect(r.user.id, args.projectId)
            /\ ~InOtherGroupOfProject(r.user.id, args.groupId, args.projectId)

\* A member was returned while an accepted ghost of the same group was not.
C6_Witness ==
    /\ GaveQuietly("findGroupMembersNotInProject")
    /\ outcome.value # EmptyBag
    /\ \E u \in UserIds : IsGhost(u) /\ Membership(u, args.groupId, FALSE) \in ugm

\* Effective membership in a project: a direct row, or an accepted row in a group, other
\* than g, that is granted the project.
Effective(u, g, p) ==
    \/ HasDirect(u, p)
    \/ \E m \in ugm : m.userId = u /\ ~m.isPending /\ m.groupId # g /\ Granted(m.groupId, p)

\* C3: findGroupMembersNotInProject returns exactly the accepted, non-ghost members of the
\* group who have no effective membership in the project.
C3_ReturnsExactlyNewlyGranted ==
    GaveQuietly("findGroupMembersNotInProject") =>
        {r.user.id : r \in Values(outcome.value)}
            = {u \in UserIds : /\ Membership(u, args.groupId, FALSE) \in ugm
                               /\ ~IsGhost(u)
                               /\ ~Effective(u, args.groupId, args.projectId)}

\* The pair reported for a row.
PairOf(m) ==
    [user |-> [id |-> m.userId, username |-> UsernameOf(m.userId)],
     group |-> GroupRow(m.groupId)]

\* The pending rows of the users in a state of user_group_membership.
PendingOf(table, userIds) == {m \in table : m.userId \in userIds /\ m.isPending}

\* C1: run without interleaving, deletePendingUserGroupMembershipsByUserIds returns one
\* pair for each row that at call time was pending and of a user in userIds, and no other.
C1_ReportsPendingAtCall ==
    GaveQuietly("deletePendingUserGroupMembershipsByUserIds") =>
        /\ outcome.value = Once({PairOf(m) : m \in PendingOf(atCall, args.userIds)})
        /\ Cardinality(Values(outcome.value))
              = Cardinality(PendingOf(atCall, args.userIds))

\* At call time a user in userIds had a pending and an accepted row, and a user outside
\* userIds a pending row.
C1_Witness ==
    /\ GaveQuietly("deletePendingUserGroupMembershipsByUserIds")
    /\ \E m \in atCall : m.userId \in args.userIds /\ m.isPending
    /\ \E m \in atCall : m.userId \in args.userIds /\ ~m.isPending
    /\ \E m \in atCall : m.userId \notin args.userIds /\ m.isPending

\* C2: the snapshot read and the delete are two statements: the report is what the read
\* saw, the removal is what the table held when the delete ran, whatever fell in between.
C2_ReadAndDeleteAreSeparate ==
    Gave("deletePendingUserGroupMembershipsByUserIds") =>
        /\ outcome.value = Once({PairOf(m) : m \in PendingOf(atCall, args.userIds)})
        /\ removed = {m \in ugm \cup removed : m.userId \in args.userIds}
        /\ issued = <<"select", "delete">>

\* A pending row inserted after the read was removed and not reported, and a row reported
\* as a removed invitation had been accepted before the delete removed it.
C2_Witness ==
    /\ Gave("deletePendingUserGroupMembershipsByUserIds")
    /\ interleaved
    /\ \E m \in removed :
          /\ m.isPending
          /\ \A x \in atCall : ~(x.userId = m.userId /\ x.groupId = m.groupId)
          /\ PairOf(m) \notin Values(outcome.value)
    /\ \E m \in removed :
          /\ ~m.isPending
          /\ Membership(m.userId, m.groupId, TRUE) \in atCall
          /\ PairOf(m) \in Values(outcome.value)

\* The delete statement has just run successfully.
DeleteRan == pc = "delete2" /\ pc' = "done" /\ outcome'.kind = "ok"

\* C9: a successful delete leaves no row of a user in userIds, pending or accepted, and
\* changes no row of another user and no row of the other relations.
C9_DeleteFrame ==
    [][DeleteRan =>
          /\ \A m \in ugm' : m.userId \notin args.userIds
          /\ {m \in ugm' : m.userId \notin args.userIds}
                = {m \in ugm : m.userId \notin args.userIds}
          /\ pm' = pm /\ gpm' = gpm /\ groups' = groups /\ users' = users]_vars

\* An accepted row was removed, a row of another user and a row of another relation stay.
C9_Witness ==
    /\ Gave("deletePendingUserGroupMembershipsByUserIds")
    /\ \E m \in removed : ~m.isPending
    /\ ugm # {}
    /\ pm \cup gpm # {}

\* The label each operation gives its errors.
LabelOf(op) ==
    CASE op = "filterProjectsByUserMembership" -> "Filter projects by user membership"
      [] op = "findUserGroupMembershipsInProject" -> "Find user group members in project"
      [] op = "findGroupMembersNotInProject" -> "Find group members not in project"
      [] op = "deletePendingUserGroupMembershipsByUserIds"
            -> "Delete pending user group memberships by user ids"
      [] OTHER -> "none"

NoDuplicates(seq) == \A i, j \in 1..Len(seq) : seq[i] = seq[j] => i = j

\* C10: a storage failure in any statement ends the operation with one error carrying the
\* cause and the operation's label and no value; a failed snapshot read issues no delete
\* and leaves the memberships as they were, a failed delete gives no list; nothing is
\* issued twice.
C10_FailureAbortsWhole ==
    /\ NoDuplicates(issued)
    /\ (pc = "done" /\ raised # "") =>
          /\ outcome.kind = "error"
          /\ outcome.error = raised
          /\ outcome.name = LabelOf(args.op)
          /\ outcome.value = EmptyBag
          /\ removed = {}
          /\ (args.op = "deletePendingUserGroupMembershipsByUserIds"
                /\ issued = <<"select">>) => ugm = atCall
    /\ (pc = "done" /\ outcome.kind = "error") => raised \in Faults
    /\ (pc = "done" /\ raised = "") => outcome.kind = "ok"

\* The delete failed after the snapshot read had found pending rows to report.
C10_Witness ==
    /\ pc = "done"
    /\ outcome.kind = "error"
    /\ args.op = "deletePendingUserGroupMembershipsByUserIds"
    /\ issued = <<"select", "delete">>
    /\ \E m \in atCall : m.isPending /\ m \in ugm
====
